---------------------------- MODULE Spec2Model ----------------------------
(***************************************************************************)
(* The remote service layer of receipt-assessment-backend: five gRPC       *)
(* handlers (GetPrescription, GetPatient, GetAllPatients,                  *)
(* UpdatePatientDetails, GetReference) over the four tables patient,       *)
(* doctor, medicine and prescription_reference.                            *)
(*                                                                         *)
(* Every `await` of a handler is one action: the statement is issued, it   *)
(* succeeds or throws, and the synchronous code up to the next `await` (or *)
(* up to the handler's return) runs with it.                               *)
(***************************************************************************)
EXTENDS Integers, Sequences, FiniteSets, TLC

(***************************************************************************)
(* Bounds of the model.                                                    *)
(***************************************************************************)
NumProcs == 2        \* handler invocations that can exist at once
MaxRequests == 2     \* requests received in one behaviour
MaxPatLen == 1       \* longest ref_no pattern a GetReference request carries
MaxPage == 2         \* largest page a GetAllPatients request carries
MaxPageSize == 2     \* largest pageSize a GetAllPatients request carries

(***************************************************************************)
(* Program constants.                                                      *)
(***************************************************************************)
DefaultPage == 1
DefaultPageSize == 10

Procs == 1..NumProcs

VARIABLES
    patient,                  \* committed rows of table patient
    doctor,                   \* committed rows of table doctor
    medicine,                 \* committed rows of table medicine
    prescription_reference,   \* committed rows of table prescription_reference
    pc,                       \* per invocation: the await it is at
    req,                      \* per invocation: call.request
    ids,                      \* per invocation: patientResult.recordset[0]
    total,                    \* per invocation: totalCount of GetAllPatients
    txn,                      \* per invocation: state of its sql.Transaction
    pending,                  \* per invocation: rows written in its transaction
    stmts,                    \* per invocation: statements issued, with outcome
    answers,                  \* per invocation: the calls of callback
    before,                   \* per invocation: committed tables at receipt
    served,                   \* requests received so far
    front                     \* per invocation: the front-API operation it serves

vars == <<patient, doctor, medicine, prescription_reference, pc, req, ids,
          total, txn, pending, stmts, answers, before, served, front>>

tables == <<patient, doctor, medicine, prescription_reference>>

(***************************************************************************)
(* Strings that are searched with LIKE or ordered (reference numbers and   *)
(* ref_no arguments) are sequences of characters; all other strings are    *)
(* opaque values, "" being the empty string.                               *)
(***************************************************************************)
Letters == {"a", "b"}
Alphabet == Letters \cup {"%", "_"}

RECURSIVE SeqsUpTo(_, _)
SeqsUpTo(S, n) ==
    IF n = 0 THEN {<<>>}
    ELSE LET shorter == SeqsUpTo(S, n - 1)
         IN  shorter \cup {Append(s, c) : s \in shorter, c \in S}

Min(a, b) == IF a < b THEN a ELSE b

(***************************************************************************)
(* The database the service is started against.                            *)
(***************************************************************************)
InitPatient ==
    { [id |-> 1, name |-> "Ann", age |-> 30, gender |-> "F", contact |-> "111"],
      [id |-> 2, name |-> "Bob", age |-> 41, gender |-> "M", contact |-> "222"] }

InitDoctor ==
    { [id |-> 1, name |-> "Who"], [id |-> 2, name |-> "House"] }

InitMedicine ==
    { [id |-> 1, name |-> "Aspirin", description |-> "pain"],
      [id |-> 2, name |-> "Zinc", description |-> "cold"] }

InitReferences ==
    { [reference_number |-> <<"a">>, patient_id |-> 1, doctor_id |-> 1,
       medicine_id |-> 1],
      [reference_number |-> <<"a", "b">>, patient_id |-> 2, doctor_id |-> 1,
       medicine_id |-> 2],
      [reference_number |-> <<"b", "a">>, patient_id |-> 2, doctor_id |-> 2,
       medicine_id |-> 2] }

\* The service may also be started against a database with no prescription.
ReferenceTables == { {}, InitReferences }

(***************************************************************************)
(* JavaScript and SQL helpers.                                             *)
(***************************************************************************)
\* JS truthiness of a string / of a number.
TruthyStr(s) == s # ""
TruthyNum(n) == n # 0

\* `v || null` bound to a parameter: <<>> is SQL NULL, <<v>> the value v.
StrOrNull(s) == IF TruthyStr(s) THEN <<s>> ELSE <<>>
NumOrNull(n) == IF TruthyNum(n) THEN <<n>> ELSE <<>>

\* COALESCE(@param, column)
Coalesce(param, stored) == IF Len(param) = 0 THEN stored ELSE param[1]

\* All orders in which a query without ORDER BY can return the rows S.
RECURSIVE Enumerations(_)
Enumerations(S) ==
    IF S = {} THEN {<<>>}
    ELSE UNION { {<<x>> \o rest : rest \in Enumerations(S \ {x})} : x \in S }

\* Variant: the comparison is <= 1.
IsEmptyOrSingle(recordset) == Len(recordset) <= 1
\* result.recordset.length === 0
IsEmpty(recordset) == Len(recordset) = 0

(***************************************************************************)
(* The SQL statements of UpdatePatientDetails.  An UPDATE yields the new   *)
(* versions of the rows its WHERE clause selects; they stay private to the *)
(* transaction (and locked) until COMMIT merges them into the table.       *)
(***************************************************************************)
\* SELECT pr.patient_id, pr.doctor_id, pr.medicine_id ... WHERE
\* pr.reference_number = @reference_number
SelectIds(references, reference_number) ==
    { [patient_id |-> r.patient_id, doctor_id |-> r.doctor_id,
       medicine_id |-> r.medicine_id] :
      r \in {x \in references : x.reference_number = reference_number} }

\* Variant: name is bound as it came and assigned without COALESCE.
UpdatePatientRowsNameOverwritten(rows, patient_id, name, age, gender, contact) ==
    { [r EXCEPT !.name = name,
                !.age = Coalesce(NumOrNull(age), r.age),
                !.gender = Coalesce(StrOrNull(gender), r.gender),
                !.contact = Coalesce(StrOrNull(contact), r.contact)] :
      r \in {x \in rows : x.id = patient_id} }
\* UPDATE patient SET name = COALESCE(@name, name), ... WHERE id = @patient_id
UpdatePatientRows(rows, patient_id, name, age, gender, contact) ==
    { [r EXCEPT !.name = Coalesce(StrOrNull(name), r.name),
                !.age = Coalesce(NumOrNull(age), r.age),
                !.gender = Coalesce(StrOrNull(gender), r.gender),
                !.contact = Coalesce(StrOrNull(contact), r.contact)] :
      r \in {x \in rows : x.id = patient_id} }

\* Variant: the UPDATE of doctor without its WHERE clause.
UpdateDoctorRowsNoWhere(rows, doctor_id, doctor_name) ==
    { [r EXCEPT !.name = doctor_name] : r \in rows }
\* UPDATE doctor SET name = @doctor_name WHERE id = @doctor_id
UpdateDoctorRows(rows, doctor_id, doctor_name) ==
    { [r EXCEPT !.name = doctor_name] : r \in {x \in rows : x.id = doctor_id} }

\* UPDATE medicine SET name = COALESCE(@medicine_name, name),
\* description = COALESCE(@description, description) WHERE id = @medicine_id
UpdateMedicineRows(rows, medicine_id, medicine_name, description) ==
    { [r EXCEPT !.name = Coalesce(StrOrNull(medicine_name), r.name),
                !.description = Coalesce(StrOrNull(description), r.description)] :
      r \in {x \in rows : x.id = medicine_id} }

\* A table with the rows `written` replacing the rows of the same id.
Merge(rows, written) ==
    {r \in rows : \A w \in written : w.id # r.id} \cup written

\* Variant: a commit that adds the written rows and keeps the old versions.
CommittedAsInsert(rows, written) == rows \cup written
\* The committed table after transaction.commit() / transaction.rollback().
Committed(rows, written) == Merge(rows, written)
\* Variant: a rollback that leaves the transaction's writes in the table.
RolledBackKeepsWrites(rows, written) == Merge(rows, written)
RolledBack(rows, written) == rows

NoWrites == [patient |-> {}, doctor |-> {}, medicine |-> {}]

\* Variant: no row is ever locked.
NeverLocked(i, table, id) == FALSE
\* Row `id` of `table` is write-locked by a transaction other than i's.
Locked(i, table, id) ==
    \E j \in Procs \ {i} : \E w \in pending[j][table] : w.id = id

(***************************************************************************)
(* The conditions of UpdatePatientDetails: which statement it awaits next. *)
(***************************************************************************)
HasPatientData(r) ==
    TruthyStr(r.name) \/ TruthyNum(r.age) \/ TruthyStr(r.gender)
        \/ TruthyStr(r.contact)
HasDoctorData(r) == TruthyStr(r.doctor_name)
HasMedicineData(r) == TruthyStr(r.medicine_name) \/ TruthyStr(r.description)

AfterDoctor(r) == IF HasMedicineData(r) THEN "update_medicine" ELSE "commit"
AfterPatient(r) == IF HasDoctorData(r) THEN "update_doctor" ELSE AfterDoctor(r)
AfterLookup(r) == IF HasPatientData(r) THEN "update_patient" ELSE AfterPatient(r)

(***************************************************************************)
(* Answers: one call of callback.                                          *)
(***************************************************************************)
Result(body) == [code |-> "OK", body |-> body]
NotFound == [code |-> "NOT_FOUND", body |-> "none"]
Internal == [code |-> "INTERNAL", body |-> "none"]

\* Variant: a catch that logs the error and does not call callback.
CatchSilent(called) == called
\* catch (err) { callback({ code: grpc.status.INTERNAL, ... }) }
Catch(called) == Append(called, Internal)

\* Where a throw of statement `op` lands: UpdatePatientDetails has an inner
\* try around everything after transaction.begin(); every other await is
\* directly in the try whose catch answers.
InnerTry ==
    {"LOOKUP", "ROLLBACK_NOT_FOUND", "UPDATE_PATIENT", "UPDATE_DOCTOR",
     "UPDATE_MEDICINE", "COMMIT"}
\* Variant: a failed sql.connect is tried again.
ThrownRetriesConnect(op) ==
    IF op = "CONNECT" THEN "connect"
    ELSE IF op \in InnerTry THEN "inner_catch" ELSE "catch"
\* Variant: COMMIT after the inner try, its throw lands in the answering catch.
ThrownCommitUncaught(op) ==
    IF op \in InnerTry \ {"COMMIT"} THEN "inner_catch" ELSE "catch"
\* Variant: no inner try, every throw lands in the answering catch.
ThrownToOuterCatch(op) == "catch"
Thrown(op) == IF op \in InnerTry THEN "inner_catch" ELSE "catch"

\* One more statement in the log of invocation i.
Issued(i, op, ok) == [stmts EXCEPT ![i] = Append(@, [op |-> op, ok |-> ok])]

(***************************************************************************)
(* Requests.                                                               *)
(***************************************************************************)
StoredReferences == {r.reference_number : r \in InitReferences}
AbsentReference == <<"b", "b">>

PatientFields == {"name", "age", "gender", "contact"}
DoctorFields == {"doctor_name"}
MedicineFields == {"medicine_name", "description"}
Fields == PatientFields \cup DoctorFields \cup MedicineFields

\* The sets of optional fields an UpdatePatientDetails request provides: none,
\* any single one, all of one table, or all.
ProvidedSets ==
    {{}} \cup {{f} : f \in Fields} \cup {PatientFields, MedicineFields, Fields}

UpdateRequest(reference_number, P) ==
    [op |-> "UpdatePatientDetails",
     reference_number |-> reference_number,
     name |-> IF "name" \in P THEN "Cy" ELSE "",
     age |-> IF "age" \in P THEN 55 ELSE 0,
     gender |-> IF "gender" \in P THEN "X" ELSE "",
     contact |-> IF "contact" \in P THEN "999" ELSE "",
     doctor_name |-> IF "doctor_name" \in P THEN "Strange" ELSE "",
     medicine_name |-> IF "medicine_name" \in P THEN "Ibu" ELSE "",
     description |-> IF "description" \in P THEN "fever" ELSE ""]

UpdateRequests ==
    { UpdateRequest(r, P) :
      r \in StoredReferences \cup {AbsentReference}, P \in ProvidedSets }

NoRequest == [op |-> "none"]
NoFront == [op |-> "none", calls |-> <<>>, settled |-> <<>>]
NoIds == [patient_id |-> 0, doctor_id |-> 0, medicine_id |-> 0]
NoSnapshot ==
    [patient |-> {}, doctor |-> {}, medicine |-> {}, prescription_reference |-> {}]
Snapshot ==
    [patient |-> patient, doctor |-> doctor, medicine |-> medicine,
     prescription_reference |-> prescription_reference]

(***************************************************************************)
(* Initial state: the database as loaded, no request in progress.          *)
(***************************************************************************)
Init ==
    /\ patient = InitPatient
    /\ doctor = InitDoctor
    /\ medicine = InitMedicine
    /\ prescription_reference \in ReferenceTables
    /\ pc = [i \in Procs |-> "idle"]
    /\ req = [i \in Procs |-> NoRequest]
    /\ ids = [i \in Procs |-> NoIds]
    /\ total = [i \in Procs |-> 0]
    /\ txn = [i \in Procs |-> "none"]
    /\ pending = [i \in Procs |-> NoWrites]
    /\ stmts = [i \in Procs |-> <<>>]
    /\ answers = [i \in Procs |-> <<>>]
    /\ before = [i \in Procs |-> NoSnapshot]
    /\ served = 0
    /\ front = [i \in Procs |-> NoFront]

(***************************************************************************)
(* A request arrives and its handler starts; it runs up to sql.connect.    *)
(* The invocation takes the first free slot.                               *)
(***************************************************************************)
Start(i, r) ==
    /\ pc[i] = "idle"
    /\ \A j \in Procs : j < i => pc[j] # "idle"
    /\ served < MaxRequests
    /\ served' = served + 1
    /\ pc' = [pc EXCEPT ![i] = "connect"]
    /\ req' = [req EXCEPT ![i] = r]
    /\ before' = [before EXCEPT ![i] = Snapshot]
    /\ UNCHANGED <<tables, ids, total, txn, pending, stmts, answers>>

\* The handler has returned: the invocation is gone.  A transaction it
\* left open is aborted by the server when its connection is reset.
Finish(i) ==
    /\ pc[i] = "done"
    /\ front[i].settled # <<>>
    /\ pc' = [pc EXCEPT ![i] = "idle"]
    /\ req' = [req EXCEPT ![i] = NoRequest]
    /\ ids' = [ids EXCEPT ![i] = NoIds]
    /\ total' = [total EXCEPT ![i] = 0]
    /\ txn' = [txn EXCEPT ![i] = "none"]
    /\ pending' = [pending EXCEPT ![i] = NoWrites]
    /\ stmts' = [stmts EXCEPT ![i] = <<>>]
    /\ answers' = [answers EXCEPT ![i] = <<>>]
    /\ before' = [before EXCEPT ![i] = NoSnapshot]
    /\ front' = [front EXCEPT ![i] = NoFront]
    /\ UNCHANGED <<tables, served>>

\* Variant: UpdatePatientDetails without transaction.begin().
AfterConnectSkipsBegin(r) ==
    CASE r.op = "UpdatePatientDetails" -> "lookup"
      [] r.op = "GetAllPatients" -> "count"
      [] OTHER -> "query"
\* What the first statement after sql.connect is, per handler.
AfterConnect(r) ==
    CASE r.op = "UpdatePatientDetails" -> "begin"
      [] r.op = "GetAllPatients" -> "count"
      [] OTHER -> "query"

\* let pool = await sql.connect(sqlConfig)
Connect(i) ==
    /\ pc[i] = "connect"
    /\ \/ /\ stmts' = Issued(i, "CONNECT", TRUE)
          /\ pc' = [pc EXCEPT ![i] = AfterConnect(req[i])]
       \/ /\ stmts' = Issued(i, "CONNECT", FALSE)
          /\ pc' = [pc EXCEPT ![i] = Thrown("CONNECT")]
    /\ UNCHANGED <<tables, req, ids, total, txn, pending, answers, before, served, front>>

\* The catch that answers: callback({ code: INTERNAL }), and the handler
\* returns.
CatchError(i) ==
    /\ pc[i] = "catch"
    /\ answers' = [answers EXCEPT ![i] = Catch(@)]
    /\ pc' = [pc EXCEPT ![i] = "done"]
    /\ UNCHANGED <<tables, req, ids, total, txn, pending, stmts, before, served, front>>

(***************************************************************************)
(* UpdatePatientDetails.                                                   *)
(***************************************************************************)
\* await transaction.begin()
Begin(i) ==
    /\ pc[i] = "begin"
    /\ \/ /\ stmts' = Issued(i, "BEGIN", TRUE)
          /\ txn' = [txn EXCEPT ![i] = "open"]
          /\ pc' = [pc EXCEPT ![i] = "lookup"]
       \/ /\ stmts' = Issued(i, "BEGIN", FALSE)
          /\ pc' = [pc EXCEPT ![i] = Thrown("BEGIN")]
          /\ UNCHANGED txn
    /\ UNCHANGED <<tables, req, ids, total, pending, answers, before, served, front>>

\* Variant: the recordset is not checked for emptiness.
LookupBranchUnchecked(recordset, r) == AfterLookup(r)
\* if (patientResult.recordset.length === 0) { rollback, NOT_FOUND } else
\* the first statement the request calls for.
LookupBranch(recordset, r) ==
    IF IsEmpty(recordset) THEN "rollback_not_found" ELSE AfterLookup(r)

\* The lookup of the ids by reference_number, and the branch on its result.
Lookup(i) ==
    /\ pc[i] = "lookup"
    /\ \/ \E recordset \in
              Enumerations(SelectIds(prescription_reference,
                                     req[i].reference_number)) :
            /\ stmts' = Issued(i, "LOOKUP", TRUE)
            /\ ids' = [ids EXCEPT ![i] =
                          IF recordset = <<>> THEN NoIds ELSE recordset[1]]
            /\ pc' = [pc EXCEPT ![i] = LookupBranch(recordset, req[i])]
       \/ /\ stmts' = Issued(i, "LOOKUP", FALSE)
          /\ pc' = [pc EXCEPT ![i] = Thrown("LOOKUP")]
          /\ UNCHANGED ids
    /\ UNCHANGED <<tables, req, total, txn, pending, answers, before, served, front>>

\* await transaction.rollback(); return callback({ code: NOT_FOUND })
RollbackNotFound(i) ==
    /\ pc[i] = "rollback_not_found"
    /\ \/ /\ stmts' = Issued(i, "ROLLBACK_NOT_FOUND", TRUE)
          /\ patient' = RolledBack(patient, pending[i].patient)
          /\ doctor' = RolledBack(doctor, pending[i].doctor)
          /\ medicine' = RolledBack(medicine, pending[i].medicine)
          /\ txn' = [txn EXCEPT ![i] = "rolled_back"]
          /\ pending' = [pending EXCEPT ![i] = NoWrites]
          /\ answers' = [answers EXCEPT ![i] = Append(@, NotFound)]
          /\ pc' = [pc EXCEPT ![i] = "done"]
       \/ /\ stmts' = Issued(i, "ROLLBACK_NOT_FOUND", FALSE)
          /\ pc' = [pc EXCEPT ![i] = Thrown("ROLLBACK_NOT_FOUND")]
          /\ UNCHANGED <<patient, doctor, medicine, txn, pending, answers>>
    /\ UNCHANGED <<prescription_reference, req, ids, total, before, served, front>>

\* The conditional UPDATE of patient; it waits for the row's lock.
UpdatePatient(i) ==
    /\ pc[i] = "update_patient"
    /\ \/ /\ ~Locked(i, "patient", ids[i].patient_id)
          /\ stmts' = Issued(i, "UPDATE_PATIENT", TRUE)
          /\ pending' = [pending EXCEPT ![i].patient =
                 @ \cup UpdatePatientRows(Merge(patient, @), ids[i].patient_id,
                        req[i].name, req[i].age, req[i].gender, req[i].contact)]
          /\ pc' = [pc EXCEPT ![i] = AfterPatient(req[i])]
       \/ /\ stmts' = Issued(i, "UPDATE_PATIENT", FALSE)
          /\ pc' = [pc EXCEPT ![i] = Thrown("UPDATE_PATIENT")]
          /\ UNCHANGED pending
    /\ UNCHANGED <<tables, req, ids, total, txn, answers, before, served, front>>

\* The conditional UPDATE of doctor.
UpdateDoctor(i) ==
    /\ pc[i] = "update_doctor"
    /\ \/ /\ ~Locked(i, "doctor", ids[i].doctor_id)
          /\ stmts' = Issued(i, "UPDATE_DOCTOR", TRUE)
          /\ pending' = [pending EXCEPT ![i].doctor =
                 @ \cup UpdateDoctorRows(Merge(doctor, @), ids[i].doctor_id,
                        req[i].doctor_name)]
          /\ pc' = [pc EXCEPT ![i] = AfterDoctor(req[i])]
       \/ /\ stmts' = Issued(i, "UPDATE_DOCTOR", FALSE)
          /\ pc' = [pc EXCEPT ![i] = Thrown("UPDATE_DOCTOR")]
          /\ UNCHANGED pending
    /\ UNCHANGED <<tables, req, ids, total, txn, answers, before, served, front>>

\* The conditional UPDATE of medicine.
UpdateMedicine(i) ==
    /\ pc[i] = "update_medicine"
    /\ \/ /\ ~Locked(i, "medicine", ids[i].medicine_id)
          /\ stmts' = Issued(i, "UPDATE_MEDICINE", TRUE)
          /\ pending' = [pending EXCEPT ![i].medicine =
                 @ \cup UpdateMedicineRows(Merge(medicine, @), ids[i].medicine_id,
                        req[i].medicine_name, req[i].description)]
          /\ pc' = [pc EXCEPT ![i] = "commit"]
       \/ /\ stmts' = Issued(i, "UPDATE_MEDICINE", FALSE)
          /\ pc' = [pc EXCEPT ![i] = Thrown("UPDATE_MEDICINE")]
          /\ UNCHANGED pending
    /\ UNCHANGED <<tables, req, ids, total, txn, answers, before, served, front>>

\* await transaction.commit(); callback(null, { success: true })
Commit(i) ==
    /\ pc[i] = "commit"
    /\ \/ /\ stmts' = Issued(i, "COMMIT", TRUE)
          /\ patient' = Committed(patient, pending[i].patient)
          /\ doctor' = Committed(doctor, pending[i].doctor)
          /\ medicine' = Committed(medicine, pending[i].medicine)
          /\ txn' = [txn EXCEPT ![i] = "committed"]
          /\ pending' = [pending EXCEPT ![i] = NoWrites]
          /\ answers' = [answers EXCEPT ![i] = Append(@, Result([success |-> TRUE]))]
          /\ pc' = [pc EXCEPT ![i] = "done"]
       \/ /\ stmts' = Issued(i, "COMMIT", FALSE)
          /\ pc' = [pc EXCEPT ![i] = Thrown("COMMIT")]
          /\ UNCHANGED <<patient, doctor, medicine, txn, pending, answers>>
    /\ UNCHANGED <<prescription_reference, req, ids, total, before, served, front>>

\* The inner catch: await transaction.rollback(); throw err.  The outer
\* catch receives err, or what the rollback threw.
InnerCatch(i) ==
    /\ pc[i] = "inner_catch"
    /\ \/ /\ stmts' = Issued(i, "ROLLBACK_CATCH", TRUE)
          /\ patient' = RolledBack(patient, pending[i].patient)
          /\ doctor' = RolledBack(doctor, pending[i].doctor)
          /\ medicine' = RolledBack(medicine, pending[i].medicine)
          /\ txn' = [txn EXCEPT ![i] = "rolled_back"]
          /\ pending' = [pending EXCEPT ![i] = NoWrites]
       \/ /\ stmts' = Issued(i, "ROLLBACK_CATCH", FALSE)
          /\ UNCHANGED <<patient, doctor, medicine, txn, pending>>
    /\ pc' = [pc EXCEPT ![i] = "catch"]
    /\ UNCHANGED <<prescription_reference, req, ids, total, answers, before, served, front>>

(***************************************************************************)
(* The queries of the four reading handlers.                               *)
(***************************************************************************)
\* Variant: the doctor joined ON pr.patient_id = d.id.
JoinRowsDoctorByPatient(references, patients, doctors, medicines) ==
    { [reference_number |-> pr.reference_number,
       name |-> p.name, age |-> p.age, gender |-> p.gender,
       contact |-> p.contact, doctor_name |-> d.name,
       medicine_name |-> m.name, description |-> m.description] :
      <<pr, p, d, m>> \in
        { t \in references \X patients \X doctors \X medicines :
            /\ t[1].patient_id = t[2].id
            /\ t[1].patient_id = t[3].id
            /\ t[1].medicine_id = t[4].id } }

\* FROM prescription_reference pr JOIN patient p ON pr.patient_id = p.id
\* JOIN doctor d ON pr.doctor_id = d.id JOIN medicine m ON pr.medicine_id = m.id
JoinRows(references, patients, doctors, medicines) ==
    { [reference_number |-> pr.reference_number,
       name |-> p.name, age |-> p.age, gender |-> p.gender,
       contact |-> p.contact, doctor_name |-> d.name,
       medicine_name |-> m.name, description |-> m.description] :
      <<pr, p, d, m>> \in
        { t \in references \X patients \X doctors \X medicines :
            /\ t[1].patient_id = t[2].id
            /\ t[1].doctor_id = t[3].id
            /\ t[1].medicine_id = t[4].id } }

\* ... WHERE pr.reference_number = @ref_no
SelectPrescription(ref_no) ==
    { j \in JoinRows(prescription_reference, patient, doctor, medicine) :
        j.reference_number = ref_no }

\* SELECT * FROM patient WHERE name = @patientName
SelectPatient(patientName) == { p \in patient : p.name = patientName }

\* s LIKE pattern: % matches any run of characters, _ any one character.
RECURSIVE Like(_, _)
Like(s, pattern) ==
    IF pattern = <<>> THEN s = <<>>
    ELSE IF Head(pattern) = "%"
         THEN Like(s, Tail(pattern)) \/ (s # <<>> /\ Like(Tail(s), pattern))
         ELSE /\ s # <<>>
              /\ Head(pattern) = "_" \/ Head(pattern) = Head(s)
              /\ Like(Tail(s), Tail(pattern))

\* SELECT reference_number FROM prescription_reference
\* WHERE reference_number LIKE @ref_no, with @ref_no = `%${ref_no}%`
SelectReference(ref_no) ==
    { r.reference_number :
      r \in { x \in prescription_reference :
                Like(x.reference_number, <<"%">> \o ref_no \o <<"%">>) } }

\* The order of ORDER BY pr.reference_number.
CharRank(c) == CASE c = "%" -> 0 [] c = "_" -> 1 [] c = "a" -> 2 [] OTHER -> 3

RECURSIVE LexLeq(_, _)
LexLeq(s, t) ==
    IF s = <<>> THEN TRUE
    ELSE IF t = <<>> THEN FALSE
    ELSE IF Head(s) = Head(t) THEN LexLeq(Tail(s), Tail(t))
    ELSE CharRank(Head(s)) < CharRank(Head(t))

OrderedByReference(rows) ==
    { e \in Enumerations(rows) :
        \A k \in 1..(Len(e) - 1) :
            LexLeq(e[k].reference_number, e[k + 1].reference_number) }

\* OFFSET @offset ROWS FETCH NEXT @pageSize ROWS ONLY
OffsetFetch(ordered, offset, pageSize) ==
    IF offset >= Len(ordered) THEN <<>>
    ELSE SubSeq(ordered, offset + 1, Min(offset + pageSize, Len(ordered)))

\* Variant: the quotient rounded down.
Floor(totalCount, pageSize) == totalCount \div pageSize
\* Math.ceil(totalCount / pageSize)
Ceil(totalCount, pageSize) == (totalCount + pageSize - 1) \div pageSize

\* call.request.page || 1, call.request.pageSize || 10, (page - 1) * pageSize
EffectivePage(r) == IF TruthyNum(r.page) THEN r.page ELSE DefaultPage
EffectivePageSize(r) == IF TruthyNum(r.pageSize) THEN r.pageSize ELSE DefaultPageSize
\* Variant: the offset of the page after.
OffsetOfNextPage(r) == EffectivePage(r) * EffectivePageSize(r)
Offset(r) == (EffectivePage(r) - 1) * EffectivePageSize(r)

GetPrescriptionRequests ==
    { [op |-> "GetPrescription", ref_no |-> r] :
      r \in StoredReferences \cup {AbsentReference} }
GetPatientRequests ==
    { [op |-> "GetPatient", name |-> n] : n \in {"Ann", "Cy", "Zed"} }
GetAllPatientsRequests ==
    { [op |-> "GetAllPatients", page |-> p, pageSize |-> s] :
      p \in {-1} \cup 0..MaxPage, s \in {-1} \cup 0..MaxPageSize }
GetReferenceRequests ==
    { [op |-> "GetReference", ref_no |-> r] : r \in SeqsUpTo(Alphabet, MaxPatLen) }

Requests ==
    UpdateRequests \cup GetPrescriptionRequests \cup GetPatientRequests
        \cup GetAllPatientsRequests \cup GetReferenceRequests

\* A reading handler answers and returns.
Answer(i, a) ==
    /\ answers' = [answers EXCEPT ![i] = a]
    /\ pc' = [pc EXCEPT ![i] = "done"]

\* GetPrescription: the join query, recordset[0] as the prescription.
QueryPrescription(i) ==
    /\ pc[i] = "query"
    /\ req[i].op = "GetPrescription"
    /\ \/ \E recordset \in Enumerations(SelectPrescription(req[i].ref_no)) :
            /\ stmts' = Issued(i, "QUERY", TRUE)
            /\ IF IsEmpty(recordset)
                 THEN Answer(i, Append(answers[i], NotFound))
                 ELSE LET row == recordset[1]
                      IN  Answer(i, Append(answers[i], Result(
                             [reference_number |-> row.reference_number,
                              patient_name |-> row.name,
                              age |-> row.age,
                              gender |-> row.gender,
                              contact |-> row.contact,
                              doctor_name |-> row.doctor_name,
                              medicine_name |-> row.medicine_name,
                              description |-> row.description])))
       \/ /\ stmts' = Issued(i, "QUERY", FALSE)
          /\ pc' = [pc EXCEPT ![i] = Thrown("QUERY")]
          /\ UNCHANGED answers
    /\ UNCHANGED <<tables, req, ids, total, txn, pending, before, served, front>>

\* GetPatient: the query by name, recordset[0] as the patient.
QueryPatient(i) ==
    /\ pc[i] = "query"
    /\ req[i].op = "GetPatient"
    /\ \/ \E recordset \in Enumerations(SelectPatient(req[i].name)) :
            /\ stmts' = Issued(i, "QUERY", TRUE)
            /\ IF IsEmpty(recordset)
                 THEN Answer(i, Append(answers[i], NotFound))
                 ELSE LET row == recordset[1]
                      IN  Answer(i, Append(answers[i], Result(
                             [name |-> row.name, age |-> row.age,
                              gender |-> row.gender, contact |-> row.contact])))
       \/ /\ stmts' = Issued(i, "QUERY", FALSE)
          /\ pc' = [pc EXCEPT ![i] = Thrown("QUERY")]
          /\ UNCHANGED answers
    /\ UNCHANGED <<tables, req, ids, total, txn, pending, before, served, front>>

\* GetReference: the LIKE query, every reference_number of the recordset.
QueryReference(i) ==
    /\ pc[i] = "query"
    /\ req[i].op = "GetReference"
    /\ \/ \E recordset \in Enumerations(SelectReference(req[i].ref_no)) :
            /\ stmts' = Issued(i, "QUERY", TRUE)
            /\ IF IsEmpty(recordset)
                 THEN Answer(i, Append(answers[i], NotFound))
                 ELSE Answer(i, Append(answers[i],
                                       Result([reference |-> recordset])))
       \/ /\ stmts' = Issued(i, "QUERY", FALSE)
          /\ pc' = [pc EXCEPT ![i] = Thrown("QUERY")]
          /\ UNCHANGED answers
    /\ UNCHANGED <<tables, req, ids, total, txn, pending, before, served, front>>

\* GetAllPatients: SELECT COUNT(*) AS totalCount FROM prescription_reference
QueryCount(i) ==
    /\ pc[i] = "count"
    /\ \/ /\ stmts' = Issued(i, "COUNT", TRUE)
          /\ total' = [total EXCEPT ![i] = Cardinality(prescription_reference)]
          /\ pc' = [pc EXCEPT ![i] = "page"]
          /\ UNCHANGED answers
       \/ /\ stmts' = Issued(i, "COUNT", FALSE)
          /\ pc' = [pc EXCEPT ![i] = Thrown("COUNT")]
          /\ UNCHANGED <<total, answers>>
    /\ UNCHANGED <<tables, req, ids, txn, pending, before, served, front>>

\* GetAllPatients: the paginated join query and the mapping of its rows.
QueryPage(i) ==
    /\ pc[i] = "page"
    /\ \/ /\ Offset(req[i]) >= 0
          /\ EffectivePageSize(req[i]) > 0
          /\ \E ordered \in OrderedByReference(
              JoinRows(prescription_reference, patient, doctor, medicine)) :
            LET recordset ==
                    OffsetFetch(ordered, Offset(req[i]), EffectivePageSize(req[i]))
                totalPages == Ceil(total[i], EffectivePageSize(req[i]))
                patients ==
                    [k \in 1..Len(recordset) |->
                        [reference_number |-> recordset[k].reference_number,
                         name |-> recordset[k].name,
                         age |-> recordset[k].age,
                         gender |-> recordset[k].gender,
                         contact |-> recordset[k].contact,
                         doctor_name |-> recordset[k].doctor_name,
                         medicine_name |-> recordset[k].medicine_name,
                         description |-> recordset[k].description,
                         totalCount |-> total[i],
                         totalPages |-> totalPages]]
            IN  /\ stmts' = Issued(i, "PAGE", TRUE)
                /\ Answer(i, Append(answers[i],
                      Result([patients |-> patients, totalPages |-> totalPages])))
       \/ /\ stmts' = Issued(i, "PAGE", FALSE)
          /\ pc' = [pc EXCEPT ![i] = Thrown("PAGE")]
          /\ UNCHANGED answers
    /\ UNCHANGED <<tables, req, ids, total, txn, pending, before, served, front>>

(***************************************************************************)
(* The front API.  A resolver wraps one call of the remote handler in a    *)
(* promise, which the callback of that call settles.  An optional GraphQL  *)
(* argument is <<>> when the caller leaves it out and <<v>> when given.    *)
(***************************************************************************)
Given(f, P, Z, v, empty) ==
    IF f \in P THEN <<v>> ELSE IF f \in Z THEN <<empty>> ELSE <<>>

\* The arguments of Mutation.updatePatientDetails: the fields of P are given
\* with a new value, those of Z are given as "" or 0, the others left out.
MutationArgs(reference_number, P, Z) ==
    [reference_number |-> reference_number,
     name |-> Given("name", P, Z, "Cy", ""),
     age |-> Given("age", P, Z, 55, 0),
     gender |-> Given("gender", P, Z, "X", ""),
     contact |-> Given("contact", P, Z, "999", ""),
     doctor_name |-> Given("doctor_name", P, Z, "Strange", ""),
     medicine_name |-> Given("medicine_name", P, Z, "Ibu", ""),
     description |-> Given("description", P, Z, "fever", "")]

GivenSets ==
    { <<P, {}>> : P \in ProvidedSets }
        \cup { <<{}, {"age"}>>, <<{"gender"}, {"age"}>>, <<{}, {"name"}>> }

OptionalInts(S) == {<<>>} \cup { <<n>> : n \in S }

FrontRequests ==
    { [op |-> "updatePatientDetails", args |-> MutationArgs(r, g[1], g[2])] :
        r \in StoredReferences \cup {AbsentReference}, g \in GivenSets }
    \cup { [op |-> "getPatient", args |-> [name |-> n]] : n \in {"Ann", "Cy", "Zed"} }
    \cup { [op |-> "getAllPatients", args |-> [page |-> p, pageSize |-> s]] :
             p \in OptionalInts({-1} \cup 0..MaxPage),
             s \in OptionalInts({-1} \cup 0..MaxPageSize) }
    \cup { [op |-> "getPrescription", args |-> [ref_no |-> r]] :
             r \in StoredReferences \cup {AbsentReference} }
    \cup { [op |-> "getReference", args |-> [ref_no |-> r]] :
             r \in SeqsUpTo(Alphabet, MaxPatLen) }

\* patientClient.GetPatient, patientClient.GetAllPatients, ...: the method
\* each resolver calls.
Method(op) ==
    CASE op = "getPatient" -> "GetPatient"
      [] op = "getAllPatients" -> "GetAllPatients"
      [] op = "getPrescription" -> "GetPrescription"
      [] op = "getReference" -> "GetReference"
      [] OTHER -> "UpdatePatientDetails"

\* The request message the handler reads: a field the argument object does
\* not carry arrives as "" or 0.
StrField(a) == IF a = <<>> THEN "" ELSE a[1]
NumField(a) == IF a = <<>> THEN 0 ELSE a[1]

Encode(method, args) ==
    CASE method = "UpdatePatientDetails" ->
           [op |-> method,
            reference_number |-> args.reference_number,
            name |-> StrField(args.name),
            age |-> NumField(args.age),
            gender |-> StrField(args.gender),
            contact |-> StrField(args.contact),
            doctor_name |-> StrField(args.doctor_name),
            medicine_name |-> StrField(args.medicine_name),
            description |-> StrField(args.description)]
      [] method = "GetAllPatients" ->
           [op |-> method,
            page |-> NumField(args.page), pageSize |-> NumField(args.pageSize)]
      [] method = "GetPatient" -> [op |-> method, name |-> args.name]
      [] OTHER -> [op |-> method, ref_no |-> args.ref_no]

\* The response message the callback reads: an empty repeated field is not
\* carried.
Decode(body) ==
    IF "patients" \in DOMAIN body /\ body.patients = <<>>
    THEN [totalPages |-> body.totalPages]
    ELSE body

\* resolve(response), resolve(response.patients || []),
\* resolve(response.success)
Resolved(op, response) ==
    CASE op = "getAllPatients" ->
           IF "patients" \in DOMAIN response THEN response.patients ELSE <<>>
      [] op = "updatePatientDetails" -> response.success
      [] OTHER -> response

\* Variant: the callback resolves whatever the call's outcome.
SettleAlwaysResolves(op, answer) ==
    IF answer.code # "OK"
    THEN [kind |-> "resolve", value |-> answer]
    ELSE [kind |-> "resolve", value |-> Resolved(op, Decode(answer.body))]
\* (err, response) => { if (err) reject(err); else resolve(...); }
Settle(op, answer) ==
    IF answer.code # "OK"
    THEN [kind |-> "reject", value |-> answer]
    ELSE [kind |-> "resolve", value |-> Resolved(op, Decode(answer.body))]

\* A front-API operation is invoked: its resolver issues the remote call, and
\* the handler of that method starts.
Resolver(i, f) ==
    /\ Start(i, Encode(Method(f.op), f.args))
    /\ front' = [front EXCEPT ![i] =
          [op |-> f.op, args |-> f.args,
           calls |-> <<[method |-> Method(f.op), args |-> f.args]>>,
           settled |-> <<>>]]

\* The handler has answered: the callback of the remote call settles the
\* promise.
Callback(i) ==
    /\ pc[i] = "done"
    /\ answers[i] # <<>>
    /\ front[i].settled = <<>>
    /\ front' = [front EXCEPT ![i].settled = <<Settle(front[i].op, answers[i][1])>>]
    /\ UNCHANGED <<tables, pc, req, ids, total, txn, pending, stmts, answers,
                   before, served>>

(***************************************************************************)
(* The service handling one request at a time: a request is received when  *)
(* no handler is running.  The committed tables persist from one request   *)
(* to the next.                                                            *)
(***************************************************************************)
Receive(i) ==
    /\ \A j \in Procs : pc[j] = "idle"
    /\ \E f \in FrontRequests : Resolver(i, f)

Next ==
    \E i \in Procs :
        \/ Receive(i)
        \/ Connect(i)
        \/ Begin(i)
        \/ Lookup(i)
        \/ RollbackNotFound(i)
        \/ UpdatePatient(i)
        \/ UpdateDoctor(i)
        \/ UpdateMedicine(i)
        \/ Commit(i)
        \/ InnerCatch(i)
        \/ CatchError(i)
        \/ QueryPrescription(i)
        \/ QueryPatient(i)
        \/ QueryReference(i)
        \/ QueryCount(i)
        \/ QueryPage(i)
        \/ Callback(i)
        \/ Finish(i)

Spec == Init /\ [][Next]_vars

(***************************************************************************)
(* Vocabulary of the properties.                                           *)
(***************************************************************************)
Done(i) == pc[i] = "done"
IsUpdate(i) == req[i].op = "UpdatePatientDetails"
Positions(i) == DOMAIN stmts[i]
IssuedOp(i, op) == \E k \in Positions(i) : stmts[i][k].op = op
Succeeded(i, op) == \E k \in Positions(i) : stmts[i][k] = [op |-> op, ok |-> TRUE]
Failed(i, op) == \E k \in Positions(i) : stmts[i][k] = [op |-> op, ok |-> FALSE]
AnyFailed(i) == \E k \in Positions(i) : ~stmts[i][k].ok
Answered(i, code) == Len(answers[i]) = 1 /\ answers[i][1].code = code
LastOp(i) == stmts[i][Len(stmts[i])].op

Updates == {"UPDATE_PATIENT", "UPDATE_DOCTOR", "UPDATE_MEDICINE"}
Rollbacks == {"ROLLBACK_NOT_FOUND", "ROLLBACK_CATCH"}
\* The steps of the update state machine that C1 lists, BEGIN apart.
AfterBeginSteps == {"LOOKUP"} \cup Updates \cup {"COMMIT"}

\* The rows of the reference table, as it was at receipt, that carry the
\* reference_number of invocation i's update request.
Referenced(i) ==
    { r \in before[i].prescription_reference :
        r.reference_number = req[i].reference_number }

(***************************************************************************)
(* C1.  As stated: in UpdatePatientDetails an exception at any step of     *)
(* the update state machine (BEGIN, the lookup, an UPDATE, COMMIT) is      *)
(* followed by a ROLLBACK, and the request is answered INTERNAL.           *)
(***************************************************************************)
C1_AnyStepRollsBack ==
    \A i \in Procs :
        (IsUpdate(i) /\ Done(i)
            /\ \E op \in {"BEGIN"} \cup AfterBeginSteps : Failed(i, op))
        => (IssuedOp(i, "ROLLBACK_CATCH") /\ Answered(i, "INTERNAL"))

\* C1, amended: an exception at the lookup, at an UPDATE or at COMMIT is
\* followed by a ROLLBACK (the last statement of the request) and the request
\* is answered INTERNAL; an exception at BEGIN is answered INTERNAL with no
\* ROLLBACK issued, no transaction having begun.
C1_RollbackAfterBegin ==
    \A i \in Procs :
        (IsUpdate(i) /\ Done(i)) =>
            /\ (\E op \in AfterBeginSteps : Failed(i, op)) =>
                   /\ LastOp(i) = "ROLLBACK_CATCH"
                   /\ Answered(i, "INTERNAL")
            /\ Failed(i, "BEGIN") =>
                   /\ LastOp(i) = "BEGIN"
                   /\ txn[i] = "none"
                   /\ Answered(i, "INTERNAL")

\* An update whose COMMIT threw, was rolled back and was answered INTERNAL.
C1_Witness ==
    \E i \in Procs :
        /\ IsUpdate(i) /\ Done(i)
        /\ Failed(i, "COMMIT")
        /\ Succeeded(i, "ROLLBACK_CATCH")
        /\ Answered(i, "INTERNAL")

(***************************************************************************)
(* C2.  Whenever UpdatePatientDetails answers anything but success, the    *)
(* committed contents of the four tables are what they were when the       *)
(* request arrived: no part of its UPDATEs is committed.                   *)
(***************************************************************************)
C2_FailureCommitsNothing ==
    \A i \in Procs :
        (IsUpdate(i) /\ Len(answers[i]) > 0 /\ answers[i][1].code # "OK")
        => Snapshot = before[i]

\* An update failed after two of its UPDATEs had succeeded.
C2_Witness ==
    \E i \in Procs :
        /\ IsUpdate(i) /\ Done(i)
        /\ Succeeded(i, "UPDATE_PATIENT") /\ Succeeded(i, "UPDATE_DOCTOR")
        /\ Failed(i, "UPDATE_MEDICINE")
        /\ Answered(i, "INTERNAL")

(***************************************************************************)
(* C3.  As stated: when the lookup of UpdatePatientDetails finds no        *)
(* prescription_reference row for the reference_number, the transaction is *)
(* rolled back, no UPDATE and no COMMIT is issued, and the request is      *)
(* answered NOT_FOUND.                                                     *)
(***************************************************************************)
C3_NoRowIsNotFound ==
    \A i \in Procs :
        (IsUpdate(i) /\ Done(i) /\ Succeeded(i, "LOOKUP") /\ Referenced(i) = {})
        => /\ txn[i] = "rolled_back"
           /\ \A op \in Updates \cup {"COMMIT"} : ~IssuedOp(i, op)
           /\ Answered(i, "NOT_FOUND")

\* C3, amended: when the lookup finds no row, a ROLLBACK is issued right
\* after it, no UPDATE and no COMMIT is issued, and the request is answered
\* NOT_FOUND if that ROLLBACK succeeds; if that ROLLBACK throws, the inner
\* catch issues a second ROLLBACK and the request is answered INTERNAL.
C3_NoRowRollsBack ==
    \A i \in Procs :
        (IsUpdate(i) /\ Done(i) /\ Succeeded(i, "LOOKUP") /\ Referenced(i) = {})
        => /\ \A op \in Updates \cup {"COMMIT"} : ~IssuedOp(i, op)
           /\ \E k \in Positions(i) :
                 /\ stmts[i][k].op = "LOOKUP"
                 /\ k < Len(stmts[i])
                 /\ stmts[i][k + 1].op = "ROLLBACK_NOT_FOUND"
           /\ Succeeded(i, "ROLLBACK_NOT_FOUND") =>
                 /\ Answered(i, "NOT_FOUND")
                 /\ txn[i] = "rolled_back"
                 /\ LastOp(i) = "ROLLBACK_NOT_FOUND"
           /\ Failed(i, "ROLLBACK_NOT_FOUND") =>
                 /\ Answered(i, "INTERNAL")
                 /\ LastOp(i) = "ROLLBACK_CATCH"

\* An update for an absent reference, rolled back and answered NOT_FOUND.
C3_Witness ==
    \E i \in Procs :
        /\ IsUpdate(i) /\ Done(i)
        /\ Referenced(i) = {}
        /\ prescription_reference # {}
        /\ HasPatientData(req[i])
        /\ Succeeded(i, "ROLLBACK_NOT_FOUND")
        /\ Answered(i, "NOT_FOUND")

(***************************************************************************)
(* C4.  For a committed UpdatePatientDetails, every field among patient    *)
(* name, age, gender, contact and medicine name, description whose input   *)
(* is missing keeps its stored value, also in a row whose other fields the *)
(* request updates.                                                        *)
(***************************************************************************)
C4_MissingFieldsKept ==
    \A i \in Procs :
        (IsUpdate(i) /\ Done(i) /\ Answered(i, "OK")) =>
            /\ \A p \in before[i].patient : \E q \in patient :
                  /\ q.id = p.id
                  /\ ~TruthyStr(req[i].name) => q.name = p.name
                  /\ ~TruthyNum(req[i].age) => q.age = p.age
                  /\ ~TruthyStr(req[i].gender) => q.gender = p.gender
                  /\ ~TruthyStr(req[i].contact) => q.contact = p.contact
            /\ \A m \in before[i].medicine : \E n \in medicine :
                  /\ n.id = m.id
                  /\ ~TruthyStr(req[i].medicine_name) => n.name = m.name
                  /\ ~TruthyStr(req[i].description) => n.description = m.description

\* A committed update that gave the age alone and changed the patient row.
C4_Witness ==
    \E i \in Procs :
        /\ IsUpdate(i) /\ Done(i) /\ Answered(i, "OK")
        /\ TruthyNum(req[i].age) /\ ~TruthyStr(req[i].name)
        /\ patient # before[i].patient

(***************************************************************************)
(* C5.  In every reachable state every prescription_reference row          *)
(* references exactly one existing patient, doctor and medicine row; no    *)
(* step changes the prescription_reference table, and no step inserts or   *)
(* deletes a row of any table.                                             *)
(***************************************************************************)
Keys(rows) == {r.id : r \in rows}
OneRow(rows, id) == Cardinality({r \in rows : r.id = id}) = 1

ReferentialIntegrity ==
    \A r \in prescription_reference :
        /\ OneRow(patient, r.patient_id)
        /\ OneRow(doctor, r.doctor_id)
        /\ OneRow(medicine, r.medicine_id)

RowsStay ==
    /\ prescription_reference' = prescription_reference
    /\ Keys(patient') = Keys(patient)
    /\ Keys(doctor') = Keys(doctor)
    /\ Keys(medicine') = Keys(medicine)
    /\ Cardinality(patient') = Cardinality(patient)
    /\ Cardinality(doctor') = Cardinality(doctor)
    /\ Cardinality(medicine') = Cardinality(medicine)

\* C5: referential integrity holds in every state, and every step keeps the
\* prescription_reference table and the set of rows of each table.
C5_ReferencesIntact == []ReferentialIntegrity /\ [][RowsStay]_vars

\* A committed update has rewritten all three rows of a reference.
C5_Witness ==
    \E i \in Procs :
        /\ IsUpdate(i) /\ Done(i) /\ Answered(i, "OK")
        /\ patient # before[i].patient
        /\ doctor # before[i].doctor
        /\ medicine # before[i].medicine

(***************************************************************************)
(* C6.  A committed UpdatePatientDetails(reference_number = r) changes at  *)
(* most the patient row, the doctor row and the medicine row whose ids are *)
(* in the prescription_reference row found for r; every other row is       *)
(* unchanged.                                                              *)
(***************************************************************************)
Others(rows, except) == {r \in rows : r.id \notin except}

\* C6: after a committed update only rows referenced by r can differ from
\* what they were at receipt, at most one row per table.
C6_OnlyReferencedRows ==
    \A i \in Procs :
        (IsUpdate(i) /\ Done(i) /\ Answered(i, "OK")) =>
            /\ Others(patient, {r.patient_id : r \in Referenced(i)})
                 = Others(before[i].patient, {r.patient_id : r \in Referenced(i)})
            /\ Others(doctor, {r.doctor_id : r \in Referenced(i)})
                 = Others(before[i].doctor, {r.doctor_id : r \in Referenced(i)})
            /\ Others(medicine, {r.medicine_id : r \in Referenced(i)})
                 = Others(before[i].medicine, {r.medicine_id : r \in Referenced(i)})
            /\ Cardinality(patient \ before[i].patient) <= 1
            /\ Cardinality(doctor \ before[i].doctor) <= 1
            /\ Cardinality(medicine \ before[i].medicine) <= 1
            /\ prescription_reference = before[i].prescription_reference

\* A committed update of reference "ab" renamed doctor 1 and not doctor 2.
C6_Witness ==
    \E i \in Procs :
        /\ IsUpdate(i) /\ Done(i) /\ Answered(i, "OK")
        /\ req[i].reference_number = <<"a", "b">>
        /\ doctor # before[i].doctor
        /\ \E d \in doctor : d.id = 2 /\ d \in before[i].doctor

(***************************************************************************)
(* C7.  As stated: within one UpdatePatientDetails request the statements  *)
(* are issued in the order BEGIN, lookup, UPDATE patient, UPDATE doctor,   *)
(* UPDATE medicine, COMMIT; no UPDATE is issued before the lookup has      *)
(* returned a row; COMMIT is issued only after every issued UPDATE has     *)
(* completed without error; and no statement is issued after COMMIT.       *)
(***************************************************************************)
Rank(op) ==
    CASE op = "CONNECT" -> 0
      [] op = "BEGIN" -> 1
      [] op = "LOOKUP" -> 2
      [] op = "UPDATE_PATIENT" -> 3
      [] op = "UPDATE_DOCTOR" -> 4
      [] op = "UPDATE_MEDICINE" -> 5
      [] op = "COMMIT" -> 6
      [] op = "ROLLBACK_NOT_FOUND" -> 7
      [] OTHER -> 8

\* The order of the statements of invocation i up to and including COMMIT.
InOrder(i) ==
    LET L == stmts[i] IN
    /\ \A k, l \in Positions(i) : k < l => Rank(L[k].op) < Rank(L[l].op)
    /\ \A k \in Positions(i) :
          /\ L[k].op = "LOOKUP" =>
                k > 1 /\ L[k - 1] = [op |-> "BEGIN", ok |-> TRUE]
          /\ L[k].op \in Updates =>
                /\ Referenced(i) # {}
                /\ \E l \in 1..(k - 1) : L[l] = [op |-> "LOOKUP", ok |-> TRUE]
          /\ L[k].op = "COMMIT" =>
                /\ \A l \in 1..(k - 1) : L[l].ok
                /\ \E l \in 1..(k - 1) : L[l].op = "LOOKUP"

\* C7 as stated: the order above, and COMMIT is the last statement issued.
C7_NothingAfterCommit ==
    \A i \in Procs :
        IsUpdate(i) =>
            /\ InOrder(i)
            /\ \A k \in Positions(i) :
                  stmts[i][k].op = "COMMIT" => k = Len(stmts[i])

\* C7, amended: the same order, and no statement is issued after a COMMIT
\* that succeeded; after a COMMIT that threw, the one statement issued is the
\* ROLLBACK of the inner catch.
C7_StatementOrder ==
    \A i \in Procs :
        IsUpdate(i) =>
            /\ InOrder(i)
            /\ \A k \in Positions(i) :
                  stmts[i][k].op = "COMMIT" =>
                     \/ k = Len(stmts[i])
                     \/ /\ ~stmts[i][k].ok
                        /\ k + 1 = Len(stmts[i])
                        /\ stmts[i][k + 1].op = "ROLLBACK_CATCH"

\* An update that issued all six statements and committed.
C7_Witness ==
    \E i \in Procs :
        /\ IsUpdate(i) /\ Done(i)
        /\ [k \in Positions(i) |-> stmts[i][k].op]
             = <<"CONNECT", "BEGIN", "LOOKUP", "UPDATE_PATIENT", "UPDATE_DOCTOR",
                 "UPDATE_MEDICINE", "COMMIT">>
        /\ Answered(i, "OK")

(***************************************************************************)
(* C8.  Every request to any of the five handlers is answered exactly once *)
(* (one call of callback, made when the handler returns), with a typed     *)
(* result, NOT_FOUND or INTERNAL; a connection failure or a statement      *)
(* failure always yields INTERNAL.                                         *)
(***************************************************************************)
C8_AnsweredOnce ==
    \A i \in Procs :
        /\ Len(answers[i]) <= 1
        /\ pc[i] # "done" => answers[i] = <<>>
        /\ Done(i) =>
              /\ Len(answers[i]) = 1
              /\ answers[i][1].code \in {"OK", "NOT_FOUND", "INTERNAL"}
              /\ AnyFailed(i) => answers[i][1].code = "INTERNAL"

\* A reading handler whose query threw has answered INTERNAL.
C8_Witness ==
    \E i \in Procs :
        /\ Done(i)
        /\ req[i].op = "GetAllPatients"
        /\ Failed(i, "PAGE")
        /\ answers[i] = <<Internal>>

(***************************************************************************)
(* C9.  GetPrescription, GetPatient and GetReference answer NOT_FOUND if   *)
(* and only if the query succeeded and matched no row; when it matched a   *)
(* row they answer with a typed result.                                    *)
(***************************************************************************)
Matching(r) ==
    CASE r.op = "GetPrescription" ->
            {x \in prescription_reference : x.reference_number = r.ref_no}
      [] r.op = "GetPatient" -> {x \in patient : x.name = r.name}
      [] r.op = "GetReference" -> SelectReference(r.ref_no)
      [] OTHER -> {}

\* C9: NOT_FOUND iff the query succeeded and matched no row; a typed result
\* when it matched one.
C9_NotFoundIffNoRow ==
    \A i \in Procs :
        (Done(i) /\ req[i].op \in {"GetPrescription", "GetPatient", "GetReference"})
        => /\ Answered(i, "NOT_FOUND")
                <=> (Succeeded(i, "QUERY") /\ Matching(req[i]) = {})
           /\ (Succeeded(i, "QUERY") /\ Matching(req[i]) # {})
                => Answered(i, "OK")

\* GetPatient found a patient that an earlier update had renamed.
C9_Witness ==
    \E i \in Procs :
        /\ Done(i)
        /\ req[i] = [op |-> "GetPatient", name |-> "Cy"]
        /\ Answered(i, "OK")

(***************************************************************************)
(* C10.  No handler retries: per request it connects at most once and      *)
(* issues each of its statements at most once; after the first failing     *)
(* connect or statement only ROLLBACK is issued; and the request is        *)
(* answered with the failure.                                              *)
(***************************************************************************)
C10_NoRetry ==
    \A i \in Procs :
        /\ \A k, l \in Positions(i) : k # l => stmts[i][k].op # stmts[i][l].op
        /\ \A k, l \in Positions(i) :
              (k < l /\ ~stmts[i][k].ok) => stmts[i][l].op \in Rollbacks
        /\ (Done(i) /\ AnyFailed(i)) => answers[i] = <<Internal>>

\* An update whose second UPDATE threw: one ROLLBACK followed, then INTERNAL.
C10_Witness ==
    \E i \in Procs :
        /\ IsUpdate(i) /\ Done(i)
        /\ Failed(i, "UPDATE_DOCTOR")
        /\ LastOp(i) = "ROLLBACK_CATCH"
        /\ Len(stmts[i]) = 6
        /\ answers[i] = <<Internal>>

(***************************************************************************)
(* C11.  Each front-API operation issues exactly one remote call, to the   *)
(* handler of the same name and with the same arguments, and completes     *)
(* with the outcome of that call: it rejects with the remote error when    *)
(* the call failed, and otherwise resolves with the response (its patients *)
(* list, empty when there is none, for getAllPatients; its success flag    *)
(* for updatePatientDetails).                                              *)
(***************************************************************************)
SameName ==
    { <<"getPatient", "GetPatient">>, <<"getAllPatients", "GetAllPatients">>,
      <<"getPrescription", "GetPrescription">>, <<"getReference", "GetReference">>,
      <<"updatePatientDetails", "UpdatePatientDetails">> }

\* The optional arguments of the front API.
Optional(op) ==
    CASE op = "updatePatientDetails" -> Fields
      [] op = "getAllPatients" -> {"page", "pageSize"}
      [] OTHER -> {}

\* The handler reads every argument the caller gave.
Carried(i) ==
    \A f \in DOMAIN front[i].args :
        LET a == front[i].args[f]
        IN  IF f \in Optional(front[i].op)
            THEN a # <<>> => req[i][f] = a[1]
            ELSE req[i][f] = a

C11_OneCallRelayed ==
    \A i \in Procs :
        front[i].op # "none" =>
            /\ Len(front[i].calls) = 1
            /\ <<front[i].op, front[i].calls[1].method>> \in SameName
            /\ front[i].calls[1].args = front[i].args
            /\ req[i].op = front[i].calls[1].method
            /\ Carried(i)
            /\ Len(front[i].settled) <= 1
            /\ front[i].settled # <<>> =>
                 /\ Len(answers[i]) = 1
                 /\ LET answer == answers[i][1]
                        outcome == front[i].settled[1]
                    IN  IF answer.code # "OK"
                        THEN outcome.kind = "reject" /\ outcome.value = answer
                        ELSE /\ outcome.kind = "resolve"
                             /\ outcome.value =
                                  CASE front[i].op = "getAllPatients" -> answer.body.patients
                                    [] front[i].op = "updatePatientDetails" -> answer.body.success
                                    [] OTHER -> answer.body

\* getAllPatients resolved with an empty list on an empty table, the
\* response carrying no patients.
C11_Witness ==
    \E i \in Procs :
        /\ front[i].op = "getAllPatients"
        /\ prescription_reference = {}
        /\ front[i].settled = <<[kind |-> "resolve", value |-> <<>>]>>

(***************************************************************************)
(* C12.  After a committed UpdatePatientDetails(reference_number = r, ...) *)
(* every field the caller provided is stored in the row referenced by r:   *)
(* name, age, gender, contact in the patient row, doctor_name as the name  *)
(* of the doctor row, medicine_name and description as the name and the    *)
(* description of the medicine row.                                        *)
(***************************************************************************)
\* Field f of the rows with the given id holds the argument a, if provided.
Holds(rows, id, f, a) ==
    a # <<>> => \A x \in rows : x.id = id => x[f] = a[1]

C12_ProvidedFieldsStored ==
    \A i \in Procs :
        (front[i].op = "updatePatientDetails" /\ Done(i) /\ Answered(i, "OK")) =>
            \A r \in Referenced(i) :
                LET a == front[i].args
                IN  /\ Holds(patient, r.patient_id, "name", a.name)
                    /\ Holds(patient, r.patient_id, "age", a.age)
                    /\ Holds(patient, r.patient_id, "gender", a.gender)
                    /\ Holds(patient, r.patient_id, "contact", a.contact)
                    /\ Holds(doctor, r.doctor_id, "name", a.doctor_name)
                    /\ Holds(medicine, r.medicine_id, "name", a.medicine_name)
                    /\ Holds(medicine, r.medicine_id, "description", a.description)

(***************************************************************************)
(* C13.  In UpdatePatientDetails each UPDATE is conditional: the patient   *)
(* UPDATE is issued iff at least one of name, age, gender, contact is      *)
(* provided, the doctor UPDATE iff doctor_name is provided, the medicine   *)
(* UPDATE iff medicine_name or description is provided.  A request for an  *)
(* existing reference with no optional field issues no UPDATE, commits,    *)
(* answers success: true and leaves the database unchanged.  (Stated of    *)
(* the requests that reach COMMIT, resp. that meet no exception.)          *)
(***************************************************************************)
Provided(i, fields) == \E f \in fields : front[i].args[f] # <<>>

C13_UpdatesConditional ==
    \A i \in Procs :
        (front[i].op = "updatePatientDetails" /\ Done(i)) =>
            /\ IssuedOp(i, "COMMIT") =>
                 /\ IssuedOp(i, "UPDATE_PATIENT") <=> Provided(i, PatientFields)
                 /\ IssuedOp(i, "UPDATE_DOCTOR") <=> Provided(i, DoctorFields)
                 /\ IssuedOp(i, "UPDATE_MEDICINE") <=> Provided(i, MedicineFields)
            /\ (~Provided(i, Fields) /\ Referenced(i) # {} /\ ~AnyFailed(i)) =>
                 /\ \A op \in Updates : ~IssuedOp(i, op)
                 /\ Succeeded(i, "COMMIT")
                 /\ Answered(i, "OK") /\ answers[i][1].body.success
                 /\ Snapshot = before[i]

(***************************************************************************)
(* C14.  GetAllPatients(page, pageSize) returns, in ascending              *)
(* reference_number order, exactly the prescription references at          *)
(* positions (page-1)*pageSize+1 through page*pageSize of the full ordered *)
(* list, so at most pageSize rows; a missing or zero page is treated as 1  *)
(* and a missing or zero pageSize as 10.                                   *)
(***************************************************************************)
\* The position of a reference_number in the full ordered list.
Position(reference_number) ==
    1 + Cardinality({ r \in prescription_reference :
                        /\ r.reference_number # reference_number
                        /\ LexLeq(r.reference_number, reference_number) })

\* The page and the page size a getAllPatients call stands for.
PageOf(a) == IF a.page \in {<<>>, <<0>>} THEN 1 ELSE a.page[1]
PageSizeOf(a) == IF a.pageSize \in {<<>>, <<0>>} THEN 10 ELSE a.pageSize[1]

C14_PageOfOrderedList ==
    \A i \in Procs :
        (front[i].op = "getAllPatients" /\ Done(i) /\ Answered(i, "OK")) =>
            LET patients == answers[i][1].body.patients
                first == (PageOf(front[i].args) - 1) * PageSizeOf(front[i].args) + 1
                last == PageOf(front[i].args) * PageSizeOf(front[i].args)
            IN  /\ Len(patients) <= PageSizeOf(front[i].args)
                /\ \A k \in 1..Len(patients) :
                      Position(patients[k].reference_number) = first + k - 1
                /\ { patients[k].reference_number : k \in 1..Len(patients) }
                     = { r.reference_number :
                           r \in { x \in prescription_reference :
                                     Position(x.reference_number) \in first..last } }

\* Page 2 of size 2 of a table of three references: the third one alone.
C14_Witness ==
    \E i \in Procs :
        /\ front[i].op = "getAllPatients" /\ Done(i) /\ Answered(i, "OK")
        /\ front[i].args = [page |-> <<2>>, pageSize |-> <<2>>]
        /\ Cardinality(prescription_reference) = 3
        /\ Len(answers[i][1].body.patients) = 1
        /\ answers[i][1].body.patients[1].reference_number = <<"b", "a">>

(***************************************************************************)
(* C15.  Every row returned by GetAllPatients carries totalCount equal to  *)
(* the number of prescription_reference rows and totalPages equal to       *)
(* ceil(totalCount / pageSize) for the effective pageSize; the totalPages  *)
(* of the response is that number too, and is 0 when the table is empty.   *)
(***************************************************************************)
\* n = ceil(count / size): the least n with n * size >= count.
IsCeil(n, count, size) ==
    /\ n >= 0
    /\ n * size >= count
    /\ n > 0 => (n - 1) * size < count

C15_TotalsOnEveryRow ==
    \A i \in Procs :
        (front[i].op = "getAllPatients" /\ Done(i) /\ Answered(i, "OK")) =>
            LET body == answers[i][1].body
                count == Cardinality(prescription_reference)
                size == PageSizeOf(front[i].args)
            IN  /\ \A k \in 1..Len(body.patients) :
                      /\ body.patients[k].totalCount = count
                      /\ IsCeil(body.patients[k].totalPages, count, size)
                /\ IsCeil(body.totalPages, count, size)
                /\ count = 0 => body.totalPages = 0

\* Three references in pages of two: two pages, on every row of the first.
C15_Witness ==
    \E i \in Procs :
        /\ front[i].op = "getAllPatients" /\ Done(i) /\ Answered(i, "OK")
        /\ front[i].args = [page |-> <<>>, pageSize |-> <<2>>]
        /\ Len(answers[i][1].body.patients) = 2
        /\ \A k \in 1..2 :
              /\ answers[i][1].body.patients[k].totalCount = 3
              /\ answers[i][1].body.patients[k].totalPages = 2

(***************************************************************************)
(* C16.  GetReference(ref_no) returns all and only the reference_number    *)
(* values of prescription_reference that contain ref_no as a contiguous    *)
(* substring, for every ref_no string.                                     *)
(***************************************************************************)
\* sub occurs in s as a contiguous substring.
Contains(s, sub) ==
    \E k \in 0..(Len(s) - Len(sub)) : SubSeq(s, k + 1, k + Len(sub)) = sub

Containing(ref_no) ==
    { r.reference_number :
      r \in { x \in prescription_reference : Contains(x.reference_number, ref_no) } }

C16_SubstringSearch ==
    \A i \in Procs :
        (req[i].op = "GetReference" /\ Done(i) /\ Succeeded(i, "QUERY")) =>
            IF Answered(i, "OK")
            THEN LET reference == answers[i][1].body.reference
                 IN  { reference[k] : k \in DOMAIN reference } = Containing(req[i].ref_no)
            ELSE Containing(req[i].ref_no) = {}

(***************************************************************************)
(* C17.  GetPrescription(ref_no) with a matching reference returns         *)
(* reference_number = ref_no together with the name, age, gender and       *)
(* contact of the patient row, the name of the doctor row and the name and *)
(* description of the medicine row that this prescription_reference row    *)
(* points to; GetPatient(name) returns a patient row whose name equals the *)
(* requested name.                                                         *)
(***************************************************************************)
\* The prescription a reference row stands for.
PrescriptionOf(pr) ==
    { [reference_number |-> pr.reference_number,
       patient_name |-> p.name, age |-> p.age, gender |-> p.gender,
       contact |-> p.contact, doctor_name |-> d.name,
       medicine_name |-> m.name, description |-> m.description] :
      <<p, d, m>> \in
        { t \in patient \X doctor \X medicine :
            t[1].id = pr.patient_id /\ t[2].id = pr.doctor_id
                /\ t[3].id = pr.medicine_id } }

SuccessOnlyAfterCommit(i) ==
    Answered(i, "OK") =>
        /\ answers[i][1].body = [success |-> TRUE]
        /\ LastOp(i) = "COMMIT" /\ Succeeded(i, "COMMIT")
        /\ txn[i] = "committed"
        /\ \A op \in Rollbacks : ~IssuedOp(i, op)

C18_ClosedWhenAnswered ==
    \A i \in Procs :
        (IsUpdate(i) /\ answers[i] # <<>>) =>
            /\ SuccessOnlyAfterCommit(i)
            /\ Succeeded(i, "BEGIN") => txn[i] \in {"committed", "rolled_back"}

\* C18, amended: success: true is answered only after COMMIT has completed
\* without error, never after a ROLLBACK; when NOT_FOUND is answered the
\* transaction has been rolled back; when INTERNAL is answered the
\* transaction was never begun, or has been rolled back, or its ROLLBACK in
\* the inner catch has thrown and the transaction is left as it is.
C18_ClosedUnlessRollbackThrew ==
    \A i \in Procs :
        (IsUpdate(i) /\ answers[i] # <<>>) =>
            /\ SuccessOnlyAfterCommit(i)
            /\ Answered(i, "NOT_FOUND") => txn[i] = "rolled_back"
            /\ Answered(i, "INTERNAL") =>
                 \/ txn[i] = "none" /\ ~Succeeded(i, "BEGIN")
                 \/ txn[i] = "rolled_back" /\ Succeeded(i, "ROLLBACK_CATCH")
                 \/ /\ txn[i] = "open"
                    /\ LastOp(i) = "ROLLBACK_CATCH" /\ Failed(i, "ROLLBACK_CATCH")

\* An update answered INTERNAL after its UPDATE and then its ROLLBACK threw:
\* the transaction is still open.
C18_Witness ==
    \E i \in Procs :
        /\ IsUpdate(i) /\ Done(i)
        /\ Failed(i, "UPDATE_DOCTOR") /\ Failed(i, "ROLLBACK_CATCH")
        /\ Answered(i, "INTERNAL")
        /\ txn[i] = "open"

(***************************************************************************)
(* The service handling requests concurrently: a handler starts whenever a *)
(* request arrives, and the handlers in progress interleave at their       *)
(* awaits.  The requests are updates that meet on rows: through the same   *)
(* reference, or through references that share a patient, a doctor or a    *)
(* medicine row.                                                           *)
(***************************************************************************)
ConcurrentGiven ==
    { << <<"a">>, {"name"} >>,
      << <<"a">>, {"age", "doctor_name"} >>,
      << <<"a", "b">>, Fields >>,
      << <<"b", "a">>, {"name", "medicine_name"} >> }

ConcurrentRequests ==
    { [op |-> "updatePatientDetails", args |-> MutationArgs(g[1], g[2], {})] :
        g \in ConcurrentGiven }

ReceiveConcurrently(i) == \E f \in ConcurrentRequests : Resolver(i, f)

NextConcurrent ==
    \E i \in Procs :
        \/ ReceiveConcurrently(i)
        \/ Connect(i)
        \/ Begin(i)
        \/ Lookup(i)
        \/ RollbackNotFound(i)
        \/ UpdatePatient(i)
        \/ UpdateDoctor(i)
        \/ UpdateMedicine(i)
        \/ Commit(i)
        \/ InnerCatch(i)
        \/ CatchError(i)
        \/ Callback(i)
        \/ Finish(i)

SpecConcurrent == Init /\ [][NextConcurrent]_vars

\* A step of invocation i in which no statement throws.
Completes(i) ==
    /\ \/ Connect(i) \/ Begin(i) \/ Lookup(i) \/ RollbackNotFound(i)
       \/ UpdatePatient(i) \/ UpdateDoctor(i) \/ UpdateMedicine(i)
       \/ Commit(i) \/ InnerCatch(i) \/ CatchError(i) \/ Callback(i) \/ Finish(i)
    /\ \A k \in DOMAIN stmts'[i] : k > Len(stmts[i]) => stmts'[i][k].ok

\* The database answers every statement whose row lock is free and the
\* event loop resumes every handler whose await has settled; nothing obliges
\* a statement to throw.
FairConcurrent == SpecConcurrent /\ \A i \in Procs : WF_vars(Completes(i))

\* Invocation i waits for a row that invocation j has locked.
WaitsFor(i, j) ==
    /\ i # j
    /\ \/ pc[i] = "update_patient"
            /\ \E w \in pending[j].patient : w.id = ids[i].patient_id
       \/ pc[i] = "update_doctor"
            /\ \E w \in pending[j].doctor : w.id = ids[i].doctor_id
       \/ pc[i] = "update_medicine"
            /\ \E w \in pending[j].medicine : w.id = ids[i].medicine_id

RECURSIVE WaitPath(_, _, _)
WaitPath(i, j, n) ==
    \/ WaitsFor(i, j)
    \/ n > 0 /\ \E k \in Procs : WaitsFor(i, k) /\ WaitPath(k, j, n - 1)

\* No cycle of waiting invocations; each holds at most one row of a table,
\* taken in the order patient, doctor, medicine.
NoDeadlock ==
    \A i \in Procs :
        /\ ~WaitPath(i, i, NumProcs)
        /\ \A t \in {"patient", "doctor", "medicine"} : Cardinality(pending[i][t]) <= 1
        /\ pc[i] = "update_patient" => pending[i].doctor = {} /\ pending[i].medicine = {}
        /\ pc[i] = "update_doctor" => pending[i].medicine = {}

\* The database after request r has run alone on the database db.
SerialEffect(db, r) ==
    LET refs == { x \in db.prescription_reference :
                    x.reference_number = r.reference_number }
        new(given, stored) == IF given = "" THEN stored ELSE given
        newAge(given, stored) == IF given = 0 THEN stored ELSE given
    IN  [prescription_reference |-> db.prescription_reference,
         patient |->
           { IF \E x \in refs : x.patient_id = p.id
             THEN [id |-> p.id, name |-> new(r.name, p.name), age |-> newAge(r.age, p.age),
                   gender |-> new(r.gender, p.gender),
                   contact |-> new(r.contact, p.contact)]
             ELSE p : p \in db.patient },
         doctor |->
           { IF \E x \in refs : x.doctor_id = d.id
             THEN [id |-> d.id, name |-> new(r.doctor_name, d.name)]
             ELSE d : d \in db.doctor },
         medicine |->
           { IF \E x \in refs : x.medicine_id = m.id
             THEN [id |-> m.id, name |-> new(r.medicine_name, m.name),
                   description |-> new(r.description, m.description)]
             ELSE m : m \in db.medicine }]

\* The committed tables change at the commit of a request only, and then to
\* what that request, run alone on the tables committed so far, produces: the
\* committed state is at all times that of the committed requests run one
\* after another in the order of their commits.
CommitIsSerial ==
    /\ Snapshot' # Snapshot =>
          \E i \in Procs : txn[i] = "open" /\ txn'[i] = "committed"
    /\ \A i \in Procs :
          (txn[i] = "open" /\ txn'[i] = "committed") =>
              Snapshot' = SerialEffect(Snapshot, req[i])

Terminates == \A i \in Procs : (pc[i] # "idle") ~> Done(i)

(***************************************************************************)
(* C19.  When several UpdatePatientDetails requests run concurrently (on   *)
(* the same reference, or on references sharing a patient, doctor or       *)
(* medicine row), with row locks held until commit or rollback, every      *)
(* request terminates (no deadlock: each takes at most one row per table,  *)
(* in the order patient, doctor, medicine) and the committed state equals  *)
(* that of running the committed requests one after another in some order  *)
(* (here: the order of their commits).                                     *)
(***************************************************************************)
C19_ConcurrentUpdatesSerial ==
    /\ []NoDeadlock
    /\ [][CommitIsSerial]_vars
    /\ Terminates

\* Two updates in progress at once have both committed: one gave the name,
\* the other the age of the same patient row, and the row has both.
C19_Witness ==
    \E i, j \in Procs :
        /\ i # j
        /\ Done(i) /\ Answered(i, "OK") /\ Done(j) /\ Answered(j, "OK")
        /\ front[i].args = MutationArgs(<<"a">>, {"name"}, {})
        /\ front[j].args = MutationArgs(<<"a">>, {"age", "doctor_name"}, {})
        /\ \E p \in patient : p.id = 1 /\ p.name = "Cy" /\ p.age = 55

=============================================================================
